---- MODULE Spec2Model ----
(***************************************************************************)
(* Model of the Schedule Algorithm course registry (src/app/main.py).      *)
(*                                                                         *)
(* A string is a sequence of one-character strings, so that strip, lower,  *)
(* capitalize, split, isdigit and int are computed as Python computes      *)
(* them.  One action is one line read by input() at one prompt, followed   *)
(* by everything the program does until it blocks on the next input().     *)
(***************************************************************************)
EXTENDS Integers, Sequences, FiniteSets, TLC

\* ------------------------------------------------------------------ bounds
\* The user stops adding courses once the registry holds MaxCourses of them,
\* and stops adding sections once the registry holds MaxSections of them.
MaxCourses == 2
MaxSections == 2
\* The helper functions are called on their own with every string of at most
\* MaxTimeLen (_valid_time_format) or MaxDaysLen (_parse_days) characters.
MaxTimeLen == 5
MaxDaysLen == 5

\* ------------------------------------------------------------- characters
Lowers == <<"a","b","c","d","e","f","g","h","i","j","k","l","m",
            "n","o","p","q","r","s","t","u","v","w","x","y","z">>
Uppers == <<"A","B","C","D","E","F","G","H","I","J","K","L","M",
            "N","O","P","Q","R","S","T","U","V","W","X","Y","Z">>
Digits == <<"0","1","2","3","4","5","6","7","8","9">>

Letters == 1..26

\* chr -> chr tables of str.lower() and str.upper() on ASCII letters
LowerOf == [ch \in {Uppers[i] : i \in Letters} |->
               Lowers[CHOOSE i \in Letters : Uppers[i] = ch]]
UpperOf == [ch \in {Lowers[i] : i \in Letters} |->
               Uppers[CHOOSE i \in Letters : Lowers[i] = ch]]
\* chr -> int table of int() on ASCII digits
ValueOf == [ch \in {Digits[i] : i \in 1..10} |->
               (CHOOSE i \in 1..10 : Digits[i] = ch) - 1]

\* U+00B2 SUPERSCRIPT TWO, written here as one character of a line: a
\* character str.isdigit() accepts and int() refuses
SuperTwo == "^2"

IsSpace(ch) == ch = " "
\* a decimal digit: what int() and the \d of a pattern accept
IsDecimalCh(ch) == ch \in DOMAIN ValueOf
\* a digit in the sense of str.isdigit()
IsDigitCh(ch) == IsDecimalCh(ch) \/ ch = SuperTwo
DigitVal(ch) == ValueOf[ch]

LowerCh(ch) == IF ch \in DOMAIN LowerOf THEN LowerOf[ch] ELSE ch
UpperCh(ch) == IF ch \in DOMAIN UpperOf THEN UpperOf[ch] ELSE ch

\* ---------------------------------------------------------------- strings
\* str.strip(): drop leading and trailing whitespace.
RECURSIVE LStrip(_)
LStrip(s) == IF s # <<>> /\ IsSpace(Head(s)) THEN LStrip(Tail(s)) ELSE s

RECURSIVE RStrip(_)
RStrip(s) == IF s # <<>> /\ IsSpace(s[Len(s)])
             THEN RStrip(SubSeq(s, 1, Len(s) - 1))
             ELSE s

Strip(s) == RStrip(LStrip(s))

\* str.lower()
Lower(s) == [i \in 1..Len(s) |-> LowerCh(s[i])]

\* a faulty variant of Capitalize: the characters after the first are left as they are
CapitalizeFirstOnly(s) == [i \in 1..Len(s) |-> IF i = 1 THEN UpperCh(s[i]) ELSE s[i]]

\* str.capitalize(): first character upper-cased, the rest lower-cased.
Capitalize(s) == [i \in 1..Len(s) |-> IF i = 1 THEN UpperCh(s[i]) ELSE LowerCh(s[i])]

\* str.isdigit(): non-empty and digits only.
IsDigitStr(s) == s # <<>> /\ \A i \in 1..Len(s) : IsDigitCh(s[i])

\* non-empty and decimal digits only: int(s) returns
IsDecimalStr(s) == s # <<>> /\ \A i \in 1..Len(s) : IsDecimalCh(s[i])

\* int() of a decimal string.
RECURSIVE IntOf(_)
IntOf(s) == IF s = <<>> THEN 0
            ELSE 10 * IntOf(SubSeq(s, 1, Len(s) - 1)) + DigitVal(s[Len(s)])

\* int(choice) at the main menu: an optional sign and digits; anything else
\* raises ValueError.
IsIntStr(s) == \/ IsDecimalStr(s)
               \/ /\ Len(s) >= 2
                  /\ s[1] \in {"-", "+"}
                  /\ IsDecimalStr(Tail(s))

ParseInt(s) == IF IsDecimalStr(s) THEN IntOf(s)
               ELSE IF s[1] = "-" THEN 0 - IntOf(Tail(s))
               ELSE IntOf(Tail(s))

\* The cancel token: line.lower() == "c".
IsCancel(s) == Lower(s) = <<"c">>

\* ------------------------------------------------------ helper functions
IsSep(ch) == ch = "," \/ IsSpace(ch)

\* re.split(r"[,\s]+", s): the pieces between maximal runs of separators
\* (empty pieces appear at a leading or trailing run).
RECURSIVE ReSplit(_, _, _)
ReSplit(s, cur, inSep) ==
    IF s = <<>> THEN <<cur>>
    ELSE IF IsSep(Head(s))
         THEN IF inSep THEN ReSplit(Tail(s), cur, TRUE)
                       ELSE <<cur>> \o ReSplit(Tail(s), <<>>, TRUE)
         ELSE ReSplit(Tail(s), Append(cur, Head(s)), FALSE)

RECURSIVE KeepNonEmpty(_)
KeepNonEmpty(ps) ==
    IF ps = <<>> THEN <<>>
    ELSE IF Strip(Head(ps)) # <<>>
         THEN <<Capitalize(Strip(Head(ps)))>> \o KeepNonEmpty(Tail(ps))
         ELSE KeepNonEmpty(Tail(ps))

\* _parse_days
ParseDays(raw) == IF raw = <<>> THEN <<>>
                  ELSE KeepNonEmpty(ReSplit(Strip(raw), <<>>, FALSE))

\* position of the first ":" of s, 0 when there is none
ColonAt(s) == IF \E i \in 1..Len(s) : s[i] = ":"
              THEN CHOOSE i \in 1..Len(s) : s[i] = ":" /\ \A j \in 1..(i - 1) : s[j] # ":"
              ELSE 0

HourPart(s) == SubSeq(s, 1, ColonAt(s) - 1)
MinPart(s)  == SubSeq(s, ColonAt(s) + 1, Len(s))

\* re.fullmatch(r"(\d{1,2}):(\d{2})", s)
MatchesTime(s) == /\ ColonAt(s) # 0
                  /\ Len(HourPart(s)) \in {1, 2}
                  /\ IsDecimalStr(HourPart(s))
                  /\ Len(MinPart(s)) = 2
                  /\ IsDecimalStr(MinPart(s))

\* a faulty variant of ValidTimeFormat: the argument is not stripped first
ValidTimeFormatAsIs(t) ==
    /\ t # <<>>
    /\ MatchesTime(t)
    /\ IntOf(HourPart(t)) \in 0..23
    /\ IntOf(MinPart(t)) \in 0..59

\* _valid_time_format
ValidTimeFormat(t) ==
    /\ t # <<>>
    /\ MatchesTime(Strip(t))
    /\ IntOf(HourPart(Strip(t))) \in 0..23
    /\ IntOf(MinPart(Strip(t))) \in 0..59

\* sh, sm = map(int, t.split(":")) succeeds: exactly two pieces, both ints.
MinutesParse(t) == /\ ColonAt(t) # 0
                   /\ IsIntStr(Strip(HourPart(t)))
                   /\ IsIntStr(Strip(MinPart(t)))

\* h * 60 + m
Minutes(t) == ParseInt(Strip(HourPart(t))) * 60 + ParseInt(Strip(MinPart(t)))

\* a faulty variant of NotAfter: an end equal to the start passes
StrictlyBefore(start, end) == Minutes(end) < Minutes(start)

\* the rejection test of the chronological check: (eh*60+em) <= (sh*60+sm)
NotAfter(start, end) == Minutes(end) <= Minutes(start)


\* ------------------------------------------------------------- data model
\* Period.__init__
Period(period_id, days, time_start, time_end, location, instructor) ==
    [period_id |-> period_id, days |-> days, time_start |-> time_start,
     time_end |-> time_end, location |-> location, instructor |-> instructor]

\* Course.__init__
Course(title, course_id) ==
    [title |-> title, course_id |-> course_id, periods |-> <<>>]

\* Course.add_period: self.periods.append(period)
AddPeriod(course, period) ==
    [course EXCEPT !.periods = Append(@, period)]

\* del lst[index], index 0-based
DelAt(lst, index) ==
    SubSeq(lst, 1, index) \o SubSeq(lst, index + 2, Len(lst))

\* ------------------------------------------------------------------ state
VARIABLES
    user,           \* the vocabulary of the person at the keyboard
    call,           \* a call of a helper function or of a workflow made from
                    \* outside the menus: its name, argument and return value
    courses,        \* the global list of courses
    pc,             \* the input() call the program is blocked on
    wf,             \* the workflow the main menu dispatched to
    course_index,   \* course_index of edit_course / delete_course / add_section
    section_index,  \* section_index of edit_course / delete_course
    title,          \* add_course: the title accepted at the first prompt
    np,             \* add_section: its locals period_id, days, time_start, time_end
                    \* and location, which persist from one iteration to the next
    msg,            \* the outcome the last step reported on the terminal, "" when
                    \* it only showed a menu, a list or a prompt
    as_entry,       \* the registry and the course index add_section was entered with
    as_added,       \* the periods add_section has constructed since
    as_iter         \* the iteration of add_section's outer loop

vars == <<user, call, courses, pc, wf, course_index, section_index, title, np, msg,
          as_entry, as_added, as_iter>>

\* the program is run from its menus only
NoCall == [fn |-> "", arg |-> <<>>, ret |-> <<>>]

NoPeriod == [period_id |-> <<>>, days |-> <<>>, time_start |-> <<>>,
             time_end |-> <<>>, location |-> <<>>]

NoEntry == [courses |-> <<>>, index |-> -1]

AsPrompts == {"as_pid", "as_days", "as_start", "as_end", "as_loc", "as_instr",
              "as_again"}

RECURSIVE TotalSections(_)
TotalSections(cs) ==
    IF cs = <<>> THEN 0 ELSE Len(Head(cs).periods) + TotalSections(Tail(cs))

\* ----------------------------------------------------------------- inputs
\* The lines the user types, before input().strip().  Three users explore the
\* program: "clock" varies the times of sections, "titles" the titles and
\* ids of courses, "labels" the ids and days of sections.  All of them type
\* the cancel token and every menu option; "labels" also types, at the menus,
\* the selections and the confirmations, the lines the program refuses there
\* (blank, padded, upper case, out of range, the wrong word).
Users == {"clock", "titles", "labels"}

MainLines(u) == IF u = "labels"
                THEN { <<>>, <<"x">>, <<"7">>, <<"-","1">>, <<"0">>, <<"1">>, <<"2">>,
                       <<" ","2">>, <<"3">>, <<"4">>, <<"5">>, <<"6">> }
                ELSE { <<"0">>, <<"1">>, <<"2">>, <<"3">>, <<"4">> }

IndexLines(u) == IF u = "labels"
                 THEN { <<>>, <<"c">>, <<"C">>, <<"x">>, <<"0">>, <<"1">>, <<"2">>,
                        <<"3">>, <<"4">>, <<SuperTwo>>, <<" ","1"," ">> }
                 ELSE { <<"c">>, <<"1">>, <<"2">>, <<"3">> }

\* add_course
TitleLines == IF user = "titles"
              THEN { <<>>, <<" ">>, <<"c">>, <<"C">>, <<"A">> }
              ELSE { <<"c">>, <<"A">> }
IdLines    == IF user = "titles"
              THEN { <<>>, <<"c">>, <<"C">>, <<"X">> }
              ELSE { <<"c">>, <<"X">> }
\* edit_course
NewTitleLines == { <<>>, <<" ">>, <<"A">> }
NewIdLines    == { <<>>, <<"X">> }

YesNoLines == IF user = "labels"
              THEN { <<>>, <<"y">>, <<"Y">>, <<"n">>, <<"c">>, <<"C">>, <<"x">> }
              ELSE { <<"y">>, <<"n">>, <<"c">> }

\* add_section
PidLines   == IF user = "labels"
              THEN { <<>>, <<" ">>, <<"c">>, <<"C">>, <<"P">> }
              ELSE { <<>>, <<"c">>, <<"P">> }
DaysLines  == IF user = "labels"
              THEN { <<>>, <<"c">>, <<"m","o","n",","," ","W","E","D">> }
              ELSE { <<>>, <<"c">> }
StartLines(u) == IF u = "clock"
                 THEN { <<>>, <<"c">>, <<"C">>, <<"9",":","0","0">>, <<"1","0",":","0","0">>,
                        <<" ","9",":","0","0"," ">>, <<"2","4",":","0","0">>,
                        <<"9",":","5">> }
                 ELSE { <<>>, <<"c">>, <<"9",":","5">> }
EndLines(u) == IF u = "clock"
               THEN { <<>>, <<"c">>, <<"C">>, <<"1","0",":","0","0">>,
                      <<"2","4",":","0","0">>, <<"9",":","5">> }
               ELSE { <<>>, <<"c">>, <<"9",":","5">> }
LocLines   == { <<>>, <<"c">> }
InstrLines == { <<>>, <<"c">> }
\* section-edit submenu
NewPidLines == IF user = "labels" THEN { <<>>, <<" ">>, <<"Q">> } ELSE { <<>>, <<"P">> }
NewDaysLines == IF user = "labels"
                THEN { <<>>, <<",">>, <<"M","O","N"," ","w","e","d">> }
                ELSE { <<>>, <<",">> }
NewLocLines   == { <<>>, <<" ">> }
NewInstrLines == { <<>>, <<" ">> }

EcMenuLines(u) == { <<"0">>, <<"1">>, <<"2">>, <<"3">>, <<"4">>, <<"5">> }
                     \cup IF u = "labels" THEN { <<>>, <<"9">> } ELSE {}
SeMenuLines(u) == { <<"0">>, <<"1">>, <<"2">>, <<"3">>, <<"4">>, <<"5">>, <<"6">>, <<"7">> }
                     \cup IF u = "labels" THEN { <<>>, <<"9">> } ELSE {}
DcMenuLines(u) == { <<"0">>, <<"1">>, <<"2">> }
                     \cup IF u = "labels" THEN { <<>>, <<"9">> } ELSE {}

WordDelete == <<"d","e","l","e","t","e">>
WordYes    == <<"y","e","s">>

DeleteLines == IF user = "labels"
               THEN { <<>>, WordDelete, <<"D","E","L","E","T","E">>,
                      <<" ","D","e","l","e","t","e">>, WordYes, <<"d","e","l">> }
               ELSE { <<>>, WordDelete }
YesLines    == IF user = "labels"
               THEN { <<>>, WordYes, <<"Y","e","s">>, <<"y">>, WordDelete }
               ELSE { <<>>, WordYes }

\* ------------------------------------------------------------------- init
Init ==
    /\ user \in Users
    /\ call = NoCall
    /\ courses = <<>>
    /\ pc = "main"
    /\ wf = "none"
    /\ course_index = -1
    /\ section_index = -1
    /\ title = <<>>
    /\ np = NoPeriod
    /\ msg = ""
    /\ as_entry = NoEntry
    /\ as_added = <<>>
    /\ as_iter = 0

NoAs == as_entry' = NoEntry /\ as_added' = <<>> /\ as_iter' = 0

\* back at the main menu, the workflow's locals are gone
ToMain == /\ pc' = "main"
          /\ wf' = "none"
          /\ course_index' = -1
          /\ section_index' = -1
          /\ title' = <<>>
          /\ np' = NoPeriod

\* ------------------------------------------------------------- main menu
MainSelects(choice, n) == choice # <<>> /\ IsIntStr(choice) /\ ParseInt(choice) = n

\* main_menu: blank line, not an int, or an int outside 0..6
MainInvalidOn(raw) ==
    LET choice == Strip(raw) IN
    /\ pc = "main"
    /\ \/ choice = <<>>
       \/ ~IsIntStr(choice)
       \/ IsIntStr(choice) /\ (ParseInt(choice) < 0 \/ ParseInt(choice) > 6)
    /\ msg' = IF choice = <<>> THEN "Please enter a selection"
              ELSE "Invalid entry. Please enter a valid number."
    /\ NoAs
    /\ UNCHANGED <<user, call, courses, pc, wf, course_index, section_index, title, np>>

MainInvalid == pc = "main" /\ \E raw \in MainLines(user) : MainInvalidOn(raw)

\* selection 0: return 0
MainExitOn(raw) ==
    /\ pc = "main"
    /\ MainSelects(Strip(raw), 0)
    /\ pc' = "done"
    /\ msg' = "Goodbye"
    /\ NoAs
    /\ UNCHANGED <<user, call, courses, wf, course_index, section_index, title, np>>

MainExit == pc = "main" /\ \E raw \in MainLines(user) : MainExitOn(raw)

\* selection 1: display_courses only writes; 5 and 6 are not implemented
MainListOn(raw) ==
    /\ pc = "main"
    /\ \E n \in {1, 5, 6} : MainSelects(Strip(raw), n)
    /\ msg' = IF MainSelects(Strip(raw), 1)
              THEN IF courses = <<>> THEN "No courses have been added yet."
                                     ELSE ""
              ELSE "(not implemented yet)"
    /\ NoAs
    /\ UNCHANGED <<user, call, courses, pc, wf, course_index, section_index, title, np>>

MainList == pc = "main" /\ \E raw \in MainLines(user) : MainListOn(raw)

\* selection 2: add_course() blocks on its title prompt
MainAddOn(raw) ==
    /\ pc = "main"
    /\ MainSelects(Strip(raw), 2)
    /\ Len(courses) < MaxCourses
    /\ pc' = "ac_title"
    /\ wf' = "add"
    /\ msg' = ""
    /\ NoAs
    /\ UNCHANGED <<user, call, courses, course_index, section_index, title, np>>

MainAdd == pc = "main" /\ \E raw \in MainLines(user) : MainAddOn(raw)

\* choose_course() before its first prompt: -1 on an empty registry
NothingToChoose == courses = <<>>

\* what edit_course / delete_course / add_section write when choose_course
\* returned -1; wf is "none" when add_section(None) was called from outside
\* the menus
CancelledOrNone(w) == IF w = "edit" THEN "Edit cancelled or no courses."
                      ELSE IF w = "delete" THEN "Delete cancelled or no courses."
                      ELSE "Add section cancelled."

\* selection 3 / 4: edit_course() / delete_course() start with choose_course()
MainEditDeleteOn(raw) ==
    LET w == IF MainSelects(Strip(raw), 3) THEN "edit" ELSE "delete" IN
    /\ pc = "main"
    /\ \E n \in {3, 4} : MainSelects(Strip(raw), n)
    /\ IF NothingToChoose
       THEN /\ msg' = CancelledOrNone(w)
            /\ UNCHANGED <<pc, wf>>
       ELSE /\ pc' = "cc"
            /\ wf' = w
            /\ msg' = ""
    /\ NoAs
    /\ UNCHANGED <<user, call, courses, course_index, section_index, title, np>>

MainEditDelete == pc = "main" /\ \E raw \in MainLines(user) : MainEditDeleteOn(raw)

\* ---------------------------------------------------------- choose_course
\* the value choose_course / choose_section_index returns for a line, given
\* a faulty variant of Chosen: the numeral after the last one is accepted too
ChosenUpToNext(choice, n) ==
    IF choice = <<>> THEN -2
    ELSE IF IsCancel(choice) THEN -1
    ELSE IF ~IsDigitStr(choice) THEN -2
    ELSE IF ~IsDecimalStr(choice) THEN -3
    ELSE IF 1 <= IntOf(choice) /\ IntOf(choice) <= n + 1 THEN IntOf(choice) - 1
    ELSE -2

\* the length of the listed collection; -2 stands for "ask again" and -3
\* for the ValueError int(choice) raises on a line that passed isdigit()
Chosen(choice, n) ==
    IF choice = <<>> THEN -2
    ELSE IF IsCancel(choice) THEN -1
    ELSE IF ~IsDigitStr(choice) THEN -2
    ELSE IF ~IsDecimalStr(choice) THEN -3
    ELSE IF 1 <= IntOf(choice) /\ IntOf(choice) <= n THEN IntOf(choice) - 1
    ELSE -2

\* what the selection loop writes before it asks again
AskAgain(choice) ==
    IF choice = <<>> THEN "Please enter a number or 'c' to cancel."
    ELSE IF ~IsDigitStr(choice) THEN "Invalid entry. Please enter the numeric index"
    ELSE "Out of range."

\* no caller catches the exception: the traceback is written and the
\* program ends
Uncaught(e) ==
    /\ pc' = "crashed"
    /\ msg' = e
    /\ UNCHANGED <<wf, course_index, section_index, title, np>>

\* add_section(idx) up to its first prompt: the bounds guard, then the first
\* iteration of the loop
EnterAddSection(idx) ==
    IF idx < 0 \/ idx >= Len(courses)
    THEN /\ pc' = IF wf = "edit" THEN "ec_menu" ELSE "main"
         /\ wf' = IF wf = "edit" THEN wf ELSE "none"
         /\ course_index' = IF wf = "edit" THEN course_index ELSE -1
         /\ msg' = "Invalid course index."
         /\ NoAs
    ELSE /\ pc' = "as_pid"
         /\ course_index' = idx
         /\ msg' = ""
         /\ as_entry' = [courses |-> courses, index |-> idx]
         /\ as_added' = <<>>
         /\ as_iter' = 1
         /\ UNCHANGED wf

ChooseCourseOn(raw) ==
    LET choice == Strip(raw)
        r == Chosen(choice, Len(courses)) IN
    /\ pc = "cc"
    /\ IF r = -2
       THEN /\ msg' = AskAgain(choice)
            /\ UNCHANGED <<pc, wf, course_index, section_index, title, np>>
            /\ NoAs
       ELSE IF r = -3 THEN Uncaught("ValueError") /\ NoAs
       ELSE IF r = -1
       THEN /\ msg' = CancelledOrNone(wf)
            /\ ToMain
            /\ NoAs
       ELSE IF wf = "none"
       THEN /\ TotalSections(courses) < MaxSections
            /\ EnterAddSection(r)
            /\ UNCHANGED <<section_index, title, np>>
       ELSE /\ pc' = IF wf = "edit" THEN "ec_menu" ELSE "dc_menu"
            /\ course_index' = r
            /\ msg' = ""
            /\ NoAs
            /\ UNCHANGED <<wf, section_index, title, np>>
    /\ UNCHANGED <<user, call, courses>>

ChooseCourse == pc = "cc" /\ \E raw \in IndexLines(user) : ChooseCourseOn(raw)

\* ------------------------------------------------------------- add_course
AddCourseTitleOn(raw) ==
    LET t == Strip(raw) IN
    /\ pc = "ac_title"
    /\ IF IsCancel(t)
       THEN /\ msg' = "Cancelled"
            /\ ToMain
       ELSE /\ pc' = "ac_id"
            /\ title' = t
            /\ msg' = ""
            /\ UNCHANGED <<wf, course_index, section_index, np>>
    /\ NoAs
    /\ UNCHANGED <<user, call, courses>>

AddCourseTitle == pc = "ac_title" /\ \E raw \in TitleLines : AddCourseTitleOn(raw)

\* a faulty variant of Registered: the new course is put first
RegisteredFirst(cs, t, cid) == <<Course(t, cid)>> \o cs

\* courses.append(Course(title, course_id))
Registered(cs, t, cid) == Append(cs, Course(t, cid))

AddCourseIdOn(raw) ==
    LET cid == Strip(raw) IN
    /\ pc = "ac_id"
    /\ IF IsCancel(cid)
       THEN /\ msg' = "Cancelled"
            /\ ToMain
            /\ UNCHANGED courses
       ELSE /\ courses' = Registered(courses, title, cid)
            /\ pc' = "ac_sections"
            /\ title' = <<>>
            /\ msg' = "Added course:"
            /\ UNCHANGED <<wf, course_index, section_index, np>>
    /\ NoAs
    /\ UNCHANGED <<user, call>>

AddCourseId == pc = "ac_id" /\ \E raw \in IdLines : AddCourseIdOn(raw)

\* a faulty variant of AddCourseSectionsOn: passes the number of courses
\* where the index of the last one is due
AddCourseSectionsOnCount(raw) ==
    LET resp == Lower(Strip(raw)) IN
    /\ pc = "ac_sections"
    /\ IF resp = <<"y">>
       THEN /\ TotalSections(courses) < MaxSections
            /\ EnterAddSection(Len(courses))
            /\ UNCHANGED <<section_index, title, np>>
       ELSE IF resp = <<"n">>
       THEN /\ msg' = ""
            /\ ToMain
            /\ NoAs
       ELSE /\ msg' = "Please enter 'y' or 'n'."
            /\ UNCHANGED <<pc, wf, course_index, section_index, title, np>>
            /\ NoAs
    /\ UNCHANGED <<user, call, courses>>

AddCourseSectionsOn(raw) ==
    LET resp == Lower(Strip(raw)) IN
    /\ pc = "ac_sections"
    /\ IF resp = <<"y">>
       THEN /\ TotalSections(courses) < MaxSections
            /\ EnterAddSection(Len(courses) - 1)
            /\ UNCHANGED <<section_index, title, np>>
       ELSE IF resp = <<"n">>
       THEN /\ msg' = ""
            /\ ToMain
            /\ NoAs
       ELSE /\ msg' = "Please enter 'y' or 'n'."
            /\ UNCHANGED <<pc, wf, course_index, section_index, title, np>>
            /\ NoAs
    /\ UNCHANGED <<user, call, courses>>

AddCourseSections == pc = "ac_sections" /\ \E raw \in YesNoLines : AddCourseSectionsOn(raw)

\* ------------------------------------------------------------ add_section
\* return from add_section: to add_course, which then returns to the main
\* menu, or to the course menu of edit_course
LeaveAddSection ==
    /\ pc' = IF wf = "edit" THEN "ec_menu" ELSE "main"
    /\ wf' = IF wf = "edit" THEN wf ELSE "none"
    /\ course_index' = IF wf = "edit" THEN course_index ELSE -1
    /\ np' = NoPeriod
    /\ UNCHANGED <<courses, section_index, title, as_entry, as_added, as_iter>>

\* a faulty variant of AsCancelled: the cancel undoes the periods of this invocation
AsCancelledUndoes ==
    /\ msg' = "Cancelled adding section(s)."
    /\ pc' = IF wf = "edit" THEN "ec_menu" ELSE "main"
    /\ wf' = IF wf = "edit" THEN wf ELSE "none"
    /\ course_index' = IF wf = "edit" THEN course_index ELSE -1
    /\ np' = NoPeriod
    /\ courses' = as_entry.courses
    /\ UNCHANGED <<section_index, title, as_entry, as_added, as_iter>>

\* a cancel token at a prompt of add_section
AsCancelled ==
    /\ msg' = "Cancelled adding section(s)."
    /\ LeaveAddSection

\* the same prompt again
AsStay(m) ==
    /\ msg' = m
    /\ UNCHANGED <<courses, pc, wf, course_index, section_index, title, np,
                   as_entry, as_added, as_iter>>

\* the next prompt of the iteration
AsNext(p, n) ==
    /\ pc' = p
    /\ np' = n
    /\ msg' = ""
    /\ UNCHANGED <<courses, wf, course_index, section_index, title,
                   as_entry, as_added, as_iter>>

AddSectionPidOn(raw) ==
    LET period_id == Strip(raw) IN
    /\ pc = "as_pid"
    /\ IF period_id = <<>> THEN AsStay("ID cannot be empty. Enter 'c' to cancel.")
       ELSE IF IsCancel(period_id) THEN AsCancelled
       ELSE AsNext("as_days", [np EXCEPT !.period_id = period_id])
    /\ UNCHANGED <<user, call>>

AddSectionPid == pc = "as_pid" /\ \E raw \in PidLines : AddSectionPidOn(raw)

AddSectionDaysOn(raw) ==
    LET raw_days == Strip(raw) IN
    /\ pc = "as_days"
    /\ IF IsCancel(raw_days) THEN AsCancelled
       ELSE AsNext("as_start", [np EXCEPT !.days = ParseDays(raw_days)])
    /\ UNCHANGED <<user, call>>

AddSectionDays == pc = "as_days" /\ \E raw \in DaysLines : AddSectionDaysOn(raw)

\* a faulty variant of StartTaken: time_end keeps what the last iteration left there
StartTakenStale(n, time_start) == [n EXCEPT !.time_start = time_start]

\* the locals when the start-time loop is left with time_start: the
\* assignment time_end = "" follows it, whatever the last iteration left there
StartTaken(n, time_start) == [n EXCEPT !.time_start = time_start, !.time_end = <<>>]

\* a faulty variant of AddSectionStartOn: the format of the line is not
\* looked at
AddSectionStartOnUnchecked(raw) ==
    LET time_start == Strip(raw) IN
    /\ pc = "as_start"
    /\ IF IsCancel(time_start) THEN AsCancelled
       ELSE IF time_start = <<>> THEN AsNext("as_loc", StartTaken(np, time_start))
       ELSE AsNext("as_end", StartTaken(np, time_start))
    /\ UNCHANGED <<user, call>>

\* an empty start skips the end-time prompt
AddSectionStartOn(raw) ==
    LET time_start == Strip(raw) IN
    /\ pc = "as_start"
    /\ IF IsCancel(time_start) THEN AsCancelled
       ELSE IF time_start = <<>> THEN AsNext("as_loc", StartTaken(np, time_start))
       ELSE IF ~ValidTimeFormat(time_start) THEN AsStay("Invalid time format.")
       ELSE AsNext("as_end", StartTaken(np, time_start))
    /\ UNCHANGED <<user, call>>

AddSectionStart == pc = "as_start" /\ \E raw \in StartLines(user) : AddSectionStartOn(raw)

AddSectionEndOn(raw) ==
    LET time_end == Strip(raw) IN
    /\ pc = "as_end"
    /\ IF IsCancel(time_end) THEN AsCancelled
       ELSE IF ~ValidTimeFormat(time_end) THEN AsStay("Invalid time format.")
       ELSE IF NotAfter(np.time_start, time_end)
       THEN AsStay("End time must be after start time.")
       ELSE AsNext("as_loc", [np EXCEPT !.time_end = time_end])
    /\ UNCHANGED <<user, call>>

AddSectionEnd == pc = "as_end" /\ \E raw \in EndLines(user) : AddSectionEndOn(raw)

AddSectionLocationOn(raw) ==
    LET location == Strip(raw) IN
    /\ pc = "as_loc"
    /\ IF IsCancel(location) THEN AsCancelled
       ELSE AsNext("as_instr", [np EXCEPT !.location = location])
    /\ UNCHANGED <<user, call>>

AddSectionLocation == pc = "as_loc" /\ \E raw \in LocLines : AddSectionLocationOn(raw)

\* new_period = Period(period_id, days, time_start, time_end, location, instructor)
NewPeriod(n, instructor) ==
    Period(n.period_id, n.days, n.time_start, n.time_end, n.location, instructor)

\* course.add_period(new_period) on courses[idx]
WithNewPeriod(cs, idx, p) == [cs EXCEPT ![idx + 1] = AddPeriod(@, p)]

AddSectionInstructorOn(raw) ==
    LET instructor == Strip(raw) IN
    /\ pc = "as_instr"
    /\ IF IsCancel(instructor) THEN AsCancelled
       ELSE /\ courses' = WithNewPeriod(courses, course_index, NewPeriod(np, instructor))
            /\ as_added' = Append(as_added,
                                  [period_id |-> np.period_id, days |-> np.days,
                                   time_start |-> np.time_start, time_end |-> np.time_end,
                                   location |-> np.location, instructor |-> instructor])
            /\ pc' = "as_again"
            /\ msg' = "Added period"
            /\ UNCHANGED <<wf, course_index, section_index, title, np, as_entry, as_iter>>
    /\ UNCHANGED <<user, call>>

AddSectionInstructor == pc = "as_instr" /\ \E raw \in InstrLines : AddSectionInstructorOn(raw)

AddSectionAgainOn(raw) ==
    LET again == Lower(Strip(raw)) IN
    /\ pc = "as_again"
    /\ IF again = <<"y">>
       THEN /\ TotalSections(courses) < MaxSections
            /\ pc' = "as_pid"
            /\ as_iter' = as_iter + 1
            /\ msg' = ""
            /\ UNCHANGED <<courses, wf, course_index, section_index, title, np,
                           as_entry, as_added>>
       ELSE IF again = <<"n">> THEN msg' = "" /\ LeaveAddSection
       ELSE IF again = <<"c">> THEN AsCancelled
       ELSE AsStay("Please enter 'y' or 'n' (or 'c' to cancel).")
    /\ UNCHANGED <<user, call>>

AddSectionAgain == pc = "as_again" /\ \E raw \in YesNoLines : AddSectionAgainOn(raw)

\* ------------------------------------------------------------ edit_course
\* the same prompt again
Stay(m) ==
    /\ msg' = m
    /\ UNCHANGED <<courses, pc, wf, course_index, section_index, title, np>>

\* another prompt, nothing else touched
Goto(p, m) ==
    /\ pc' = p
    /\ msg' = m
    /\ UNCHANGED <<courses, wf, course_index, section_index, title, np>>

\* choose_section_index(course) before its first prompt: -1 without sections
NoSections(course) == course.periods = <<>>

\* course menu: blank, unknown option, or "3" on a course without sections
EcMenuStayOn(raw) ==
    LET selection1 == Lower(Strip(raw)) IN
    /\ pc = "ec_menu"
    /\ \/ selection1 = <<>>
       \/ selection1 \notin {<<"0">>, <<"1">>, <<"2">>, <<"3">>, <<"4">>, <<"5">>}
       \/ selection1 = <<"3">> /\ NoSections(courses[course_index + 1])
    /\ Stay(IF selection1 = <<>> THEN "Please choose an option."
            ELSE IF selection1 = <<"3">> THEN "Course has no sections."
            ELSE "Unknown option; choose 0-5.")
    /\ NoAs
    /\ UNCHANGED <<user, call>>

EcMenuStay == pc = "ec_menu" /\ \E raw \in EcMenuLines(user) : EcMenuStayOn(raw)

\* "0": back to the main menu
EcMenuBackOn(raw) ==
    /\ pc = "ec_menu"
    /\ Lower(Strip(raw)) = <<"0">>
    /\ msg' = "Returning to main menu."
    /\ ToMain
    /\ NoAs
    /\ UNCHANGED <<user, call, courses>>

EcMenuBack == pc = "ec_menu" /\ \E raw \in EcMenuLines(user) : EcMenuBackOn(raw)

\* "1", "2", "5": the title, id and delete-confirmation prompts
EcMenuPromptOn(raw) ==
    LET selection1 == Lower(Strip(raw)) IN
    /\ pc = "ec_menu"
    /\ selection1 \in {<<"1">>, <<"2">>, <<"5">>}
    /\ Goto(IF selection1 = <<"1">> THEN "ec_title"
            ELSE IF selection1 = <<"2">> THEN "ec_id" ELSE "ec_confirm", "")
    /\ NoAs
    /\ UNCHANGED <<user, call>>

EcMenuPrompt == pc = "ec_menu" /\ \E raw \in EcMenuLines(user) : EcMenuPromptOn(raw)

\* "3" on a course with sections: choose_section_index prompts
EcMenuSectionsOn(raw) ==
    /\ pc = "ec_menu"
    /\ Lower(Strip(raw)) = <<"3">>
    /\ ~NoSections(courses[course_index + 1])
    /\ Goto("cs", "")
    /\ NoAs
    /\ UNCHANGED <<user, call>>

EcMenuSections == pc = "ec_menu" /\ \E raw \in EcMenuLines(user) : EcMenuSectionsOn(raw)

\* "4": add_section(course_index)
EcMenuAddSectionOn(raw) ==
    /\ pc = "ec_menu"
    /\ Lower(Strip(raw)) = <<"4">>
    /\ TotalSections(courses) < MaxSections
    /\ EnterAddSection(course_index)
    /\ UNCHANGED <<user, call, courses, section_index, title, np>>

EcMenuAddSection == pc = "ec_menu" /\ \E raw \in EcMenuLines(user) : EcMenuAddSectionOn(raw)

\* a faulty variant of Replaced: the blank line is stored
ReplacedBlindly(old, new) == new

\* a prompt whose blank line cancels the edit: the value kept or replaced
Replaced(old, new) == IF new = <<>> THEN old ELSE new

EditTitleOn(raw) ==
    LET new_title == Strip(raw) IN
    /\ pc = "ec_title"
    /\ courses' = [courses EXCEPT ![course_index + 1].title = Replaced(@, new_title)]
    /\ pc' = "ec_menu"
    /\ msg' = IF new_title = <<>> THEN "Title edit cancelled." ELSE "Title updated."
    /\ NoAs
    /\ UNCHANGED <<user, call, wf, course_index, section_index, title, np>>

EditTitle == pc = "ec_title" /\ \E raw \in NewTitleLines : EditTitleOn(raw)

EditIdOn(raw) ==
    LET new_id == Strip(raw) IN
    /\ pc = "ec_id"
    /\ courses' = [courses EXCEPT ![course_index + 1].course_id = Replaced(@, new_id)]
    /\ pc' = "ec_menu"
    /\ msg' = IF new_id = <<>> THEN "ID edit cancelled." ELSE "ID updated."
    /\ NoAs
    /\ UNCHANGED <<user, call, wf, course_index, section_index, title, np>>

EditId == pc = "ec_id" /\ \E raw \in NewIdLines : EditIdOn(raw)

\* confirm == "delete" after strip().lower()
ConfirmsDelete(l) == Lower(l) = <<"d","e","l","e","t","e">>

\* a faulty variant of ConfirmsYes: any line that starts with y confirms
ConfirmsByInitial(l) == l # <<>> /\ Lower(l)[1] = "y"

\* confirm == "yes" after strip().lower()
ConfirmsYes(l) == Lower(l) = <<"y","e","s">>

\* a faulty variant of WithoutCourse: the first course with the title and id of the
\* picked one is removed
WithoutCourseLike(cs, idx) ==
    DelAt(cs, (CHOOSE k \in 1..Len(cs) :
                  /\ cs[k].title = cs[idx + 1].title
                  /\ cs[k].course_id = cs[idx + 1].course_id
                  /\ \A m \in 1..(k - 1) : \/ cs[m].title # cs[idx + 1].title
                                            \/ cs[m].course_id # cs[idx + 1].course_id) - 1)

\* del courses[course_index]
WithoutCourse(cs, idx) == DelAt(cs, idx)

\* del course.periods[section_index]
WithoutSection(cs, idx, sidx) ==
    [cs EXCEPT ![idx + 1].periods = DelAt(@, sidx)]

EditDeleteCourseOn(raw) ==
    LET confirm == Strip(raw) IN
    /\ pc = "ec_confirm"
    /\ IF ConfirmsDelete(confirm)
       THEN /\ courses' = WithoutCourse(courses, course_index)
            /\ msg' = "Course deleted."
            /\ ToMain
       ELSE Goto("ec_menu", "Deletion cancelled.")
    /\ NoAs
    /\ UNCHANGED <<user, call>>

EditDeleteCourse == pc = "ec_confirm" /\ \E raw \in DeleteLines : EditDeleteCourseOn(raw)

\* --------------------------------------------------- choose_section_index
ChooseSectionOn(raw) ==
    LET choice == Strip(raw)
        r == Chosen(choice, Len(courses[course_index + 1].periods)) IN
    /\ pc = "cs"
    /\ IF r = -2
       THEN /\ msg' = AskAgain(choice)
            /\ UNCHANGED <<pc, section_index>>
       ELSE IF r = -3
       THEN /\ pc' = "crashed"
            /\ msg' = "ValueError"
            /\ UNCHANGED section_index
       ELSE IF r = -1
       THEN /\ pc' = IF wf = "edit" THEN "ec_menu" ELSE "dc_menu"
            /\ msg' = IF wf = "edit" THEN "Section selection cancelled."
                      ELSE "Section deletion cancelled."
            /\ section_index' = -1
       ELSE /\ pc' = IF wf = "edit" THEN "se_menu" ELSE "dc_confirm_section"
            /\ section_index' = r
            /\ msg' = ""
    /\ NoAs
    /\ UNCHANGED <<user, call, courses, wf, course_index, title, np>>

ChooseSection == pc = "cs" /\ \E raw \in IndexLines(user) : ChooseSectionOn(raw)

\* ---------------------------------------------------- section-edit submenu
\* period = course.periods[section_index]
ThePeriod == courses[course_index + 1].periods[section_index + 1]

\* an option of the submenu ends: the period as it is now, the submenu again
SeDone(p, m) ==
    /\ courses' = [courses EXCEPT ![course_index + 1].periods[section_index + 1] = p]
    /\ pc' = "se_menu"
    /\ msg' = m
    /\ NoAs
    /\ UNCHANGED <<user, call, wf, course_index, section_index, title, np>>

\* blank or unknown option
SeMenuStayOn(raw) ==
    LET selection2 == Lower(Strip(raw)) IN
    /\ pc = "se_menu"
    /\ \/ selection2 = <<>>
       \/ selection2 \notin {<<"0">>, <<"1">>, <<"2">>, <<"3">>, <<"4">>, <<"5">>,
                             <<"6">>, <<"7">>}
    /\ Stay(IF selection2 = <<>> THEN "Please choose an option."
            ELSE "Unknown option; choose 0-7.")
    /\ NoAs
    /\ UNCHANGED <<user, call>>

SeMenuStay == pc = "se_menu" /\ \E raw \in SeMenuLines(user) : SeMenuStayOn(raw)

\* "0": back to the course menu
SeMenuBackOn(raw) ==
    /\ pc = "se_menu"
    /\ Lower(Strip(raw)) = <<"0">>
    /\ pc' = "ec_menu"
    /\ section_index' = -1      \* not read again before it is reassigned
    /\ msg' = ""
    /\ NoAs
    /\ UNCHANGED <<user, call, courses, wf, course_index, title, np>>

SeMenuBack == pc = "se_menu" /\ \E raw \in SeMenuLines(user) : SeMenuBackOn(raw)

SePromptOf(selection2) ==
    CASE selection2 = <<"1">> -> "se_pid"
      [] selection2 = <<"2">> -> "se_days"
      [] selection2 = <<"3">> -> "se_start"
      [] selection2 = <<"4">> -> "se_end"
      [] selection2 = <<"5">> -> "se_loc"
      [] selection2 = <<"6">> -> "se_instr"
      [] selection2 = <<"7">> -> "se_confirm"

\* "1".."7": the prompt of the option
SeMenuPromptOn(raw) ==
    LET selection2 == Lower(Strip(raw)) IN
    /\ pc = "se_menu"
    /\ selection2 \in {<<"1">>, <<"2">>, <<"3">>, <<"4">>, <<"5">>, <<"6">>, <<"7">>}
    /\ Goto(SePromptOf(selection2), "")
    /\ NoAs
    /\ UNCHANGED <<user, call>>

SeMenuPrompt == pc = "se_menu" /\ \E raw \in SeMenuLines(user) : SeMenuPromptOn(raw)

EditSectionIdOn(raw) ==
    LET new_pid == Strip(raw) IN
    /\ pc = "se_pid"
    /\ SeDone([ThePeriod EXCEPT !.period_id = Replaced(@, new_pid)],
              IF new_pid = <<>> THEN "Cancelled." ELSE "Section id updated.")

EditSectionId == pc = "se_pid" /\ \E raw \in NewPidLines : EditSectionIdOn(raw)

\* blank cancels; any other line replaces the days by _parse_days(raw)
NewDays(old, raw) == IF raw = <<>> THEN old ELSE ParseDays(raw)

EditSectionDaysOn(raw) ==
    LET new_raw == Strip(raw) IN
    /\ pc = "se_days"
    /\ SeDone([ThePeriod EXCEPT !.days = NewDays(@, new_raw)],
              IF new_raw = <<>> THEN "Cancelled." ELSE "Days updated.")

EditSectionDays == pc = "se_days" /\ \E raw \in NewDaysLines : EditSectionDaysOn(raw)

\* a faulty variant of NewStart: the cancel token empties the start time too
NewStartCleared(period, new_start) ==
    IF IsCancel(new_start) \/ new_start = <<>> THEN <<>>
    ELSE IF ~ValidTimeFormat(new_start) THEN period.time_start
    ELSE new_start

\* option 3: the time_start the period has after the line new_start
NewStart(period, new_start) ==
    IF IsCancel(new_start) \/ new_start = <<>>
    THEN IF new_start = <<>> THEN <<>> ELSE period.time_start
    ELSE IF ~ValidTimeFormat(new_start) THEN period.time_start
    ELSE new_start

\* a faulty variant of EditSectionStartOn: a blank line sets the period to
\* TBA altogether, end time included
EditSectionStartOnBoth(raw) ==
    LET new_start == Strip(raw) IN
    /\ pc = "se_start"
    /\ SeDone([ThePeriod EXCEPT !.time_start = NewStart(ThePeriod, new_start),
                                !.time_end = IF new_start = <<>> THEN <<>> ELSE @],
              IF IsCancel(new_start) \/ new_start = <<>>
              THEN "Start time edit cancelled or set to TBA."
              ELSE IF ~ValidTimeFormat(new_start) THEN "Invalid time format. Edit cancelled."
              ELSE "Start time updated.")

EditSectionStartOn(raw) ==
    LET new_start == Strip(raw) IN
    /\ pc = "se_start"
    /\ SeDone([ThePeriod EXCEPT !.time_start = NewStart(ThePeriod, new_start)],
              IF IsCancel(new_start) \/ new_start = <<>>
              THEN "Start time edit cancelled or set to TBA."
              ELSE IF ~ValidTimeFormat(new_start) THEN "Invalid time format. Edit cancelled."
              ELSE "Start time updated.")

EditSectionStart == pc = "se_start" /\ \E raw \in StartLines(user) : EditSectionStartOn(raw)

\* a faulty variant of EndRejected: an end equal to the start is let through
EndRejectedIfEarlier(time_start, new_end) ==
    /\ time_start # <<>>
    /\ new_end # <<>>
    /\ MinutesParse(time_start)
    /\ MinutesParse(new_end)
    /\ Minutes(new_end) < Minutes(time_start)

\* the chronological check of option 4 rejects new_end; when the minute
\* arithmetic raises, the except clause skips the check
EndRejected(time_start, new_end) ==
    /\ time_start # <<>>
    /\ new_end # <<>>
    /\ MinutesParse(time_start)
    /\ MinutesParse(new_end)
    /\ NotAfter(time_start, new_end)

\* a faulty variant of NewEnd: the format of the line is not looked at
NewEndAnyFormat(period, new_end) ==
    IF IsCancel(new_end) \/ new_end = <<>>
    THEN IF new_end = <<>> THEN <<>> ELSE period.time_end
    ELSE IF EndRejected(period.time_start, new_end) THEN period.time_end
    ELSE new_end

\* option 4: the time_end the period has after the line new_end
NewEnd(period, new_end) ==
    IF IsCancel(new_end) \/ new_end = <<>>
    THEN IF new_end = <<>> THEN <<>> ELSE period.time_end
    ELSE IF ~ValidTimeFormat(new_end) THEN period.time_end
    ELSE IF EndRejected(period.time_start, new_end) THEN period.time_end
    ELSE new_end

EditSectionEndOn(raw) ==
    LET new_end == Strip(raw) IN
    /\ pc = "se_end"
    /\ SeDone([ThePeriod EXCEPT !.time_end = NewEnd(ThePeriod, new_end)],
              IF IsCancel(new_end) \/ new_end = <<>>
              THEN "End time edit cancelled or set to TBA."
              ELSE IF ~ValidTimeFormat(new_end) THEN "Invalid time format. Edit cancelled."
              ELSE IF EndRejected(ThePeriod.time_start, new_end)
              THEN "End time must be after start time. Edit cancelled."
              ELSE "End time updated.")

EditSectionEnd == pc = "se_end" /\ \E raw \in EndLines(user) : EditSectionEndOn(raw)

EditSectionLocationOn(raw) ==
    LET new_loc == Strip(raw) IN
    /\ pc = "se_loc"
    /\ SeDone([ThePeriod EXCEPT !.location = Replaced(@, new_loc)],
              IF new_loc = <<>> THEN "Cancelled." ELSE "Location updated.")

EditSectionLocation == pc = "se_loc" /\ \E raw \in NewLocLines : EditSectionLocationOn(raw)

EditSectionInstructorOn(raw) ==
    LET new_instr == Strip(raw) IN
    /\ pc = "se_instr"
    /\ SeDone([ThePeriod EXCEPT !.instructor = Replaced(@, new_instr)],
              IF new_instr = <<>> THEN "Cancelled." ELSE "Instructor updated.")

EditSectionInstructor == pc = "se_instr" /\ \E raw \in NewInstrLines : EditSectionInstructorOn(raw)

\* option 7: "yes" deletes the section and leaves the submenu
EditDeleteSectionOn(raw) ==
    LET confirm == Strip(raw) IN
    /\ pc = "se_confirm"
    /\ IF ConfirmsYes(confirm)
       THEN /\ courses' = WithoutSection(courses, course_index, section_index)
            /\ pc' = "ec_menu"
            /\ section_index' = -1
            /\ msg' = "Section deleted."
            /\ UNCHANGED <<wf, course_index, title, np>>
       ELSE Goto("se_menu", "Deletion cancelled.")
    /\ NoAs
    /\ UNCHANGED <<user, call>>

EditDeleteSection == pc = "se_confirm" /\ \E raw \in YesLines : EditDeleteSectionOn(raw)

\* ---------------------------------------------------------- delete_course
\* blank, unknown option, or "2" on a course without sections
DcMenuStayOn(raw) ==
    LET selection == Lower(Strip(raw)) IN
    /\ pc = "dc_menu"
    /\ \/ selection = <<>>
       \/ selection \notin {<<"0">>, <<"1">>, <<"2">>}
       \/ selection = <<"2">> /\ NoSections(courses[course_index + 1])
    /\ Stay(IF selection = <<>> THEN "Please choose an option."
            ELSE IF selection = <<"2">> THEN "This course has no sections to delete."
            ELSE "Unknown option; choose 0-2.")
    /\ NoAs
    /\ UNCHANGED <<user, call>>

DcMenuStay == pc = "dc_menu" /\ \E raw \in DcMenuLines(user) : DcMenuStayOn(raw)

\* "0": cancel / back
DcMenuBackOn(raw) ==
    /\ pc = "dc_menu"
    /\ Lower(Strip(raw)) = <<"0">>
    /\ msg' = "Cancelled."
    /\ ToMain
    /\ NoAs
    /\ UNCHANGED <<user, call, courses>>

DcMenuBack == pc = "dc_menu" /\ \E raw \in DcMenuLines(user) : DcMenuBackOn(raw)

\* "1": the confirmation prompt of the whole-course deletion
DcMenuCourseOn(raw) ==
    /\ pc = "dc_menu"
    /\ Lower(Strip(raw)) = <<"1">>
    /\ Goto("dc_confirm_course", "")
    /\ NoAs
    /\ UNCHANGED <<user, call>>

DcMenuCourse == pc = "dc_menu" /\ \E raw \in DcMenuLines(user) : DcMenuCourseOn(raw)

\* "2" on a course with sections: choose_section_index prompts
DcMenuSectionOn(raw) ==
    /\ pc = "dc_menu"
    /\ Lower(Strip(raw)) = <<"2">>
    /\ ~NoSections(courses[course_index + 1])
    /\ Goto("cs", "")
    /\ NoAs
    /\ UNCHANGED <<user, call>>

DcMenuSection == pc = "dc_menu" /\ \E raw \in DcMenuLines(user) : DcMenuSectionOn(raw)

DeleteCourseConfirmOn(raw) ==
    LET confirm == Strip(raw) IN
    /\ pc = "dc_confirm_course"
    /\ IF ConfirmsDelete(confirm)
       THEN /\ courses' = WithoutCourse(courses, course_index)
            /\ msg' = "Course '...' deleted."
            /\ ToMain
       ELSE Goto("dc_menu", "Deletion cancelled.")
    /\ NoAs
    /\ UNCHANGED <<user, call>>

DeleteCourseConfirm == pc = "dc_confirm_course" /\ \E raw \in DeleteLines : DeleteCourseConfirmOn(raw)

\* a faulty variant of AfterSectionDeleted: delete_course returns
AfterSectionDeletedLeaves == "main"

\* the prompt delete_course blocks on after "yes" removed a section: the
\* `continue` of its menu loop
AfterSectionDeleted == "dc_menu"

DeleteSectionConfirmOn(raw) ==
    LET confirm == Strip(raw) IN
    /\ pc = "dc_confirm_section"
    /\ IF ConfirmsYes(confirm)
       THEN /\ courses' = WithoutSection(courses, course_index, section_index)
            /\ pc' = AfterSectionDeleted
            /\ msg' = "Deleted section"
       ELSE /\ pc' = "dc_menu"
            /\ msg' = "Deletion cancelled."
            /\ UNCHANGED courses
    /\ section_index' = -1       \* not read again before it is reassigned
    /\ NoAs
    /\ UNCHANGED <<user, call, wf, course_index, title, np>>

DeleteSectionConfirm == pc = "dc_confirm_section" /\ \E raw \in YesLines : DeleteSectionConfirmOn(raw)

\* ---------------------------------------------------------- specification
Next ==
    \/ MainInvalid \/ MainExit \/ MainList \/ MainAdd \/ MainEditDelete
    \/ ChooseCourse
    \/ AddCourseTitle \/ AddCourseId \/ AddCourseSections
    \/ AddSectionPid \/ AddSectionDays \/ AddSectionStart \/ AddSectionEnd
    \/ AddSectionLocation \/ AddSectionInstructor \/ AddSectionAgain
    \/ EcMenuStay \/ EcMenuBack \/ EcMenuPrompt \/ EcMenuSections \/ EcMenuAddSection
    \/ EditTitle \/ EditId \/ EditDeleteCourse
    \/ ChooseSection
    \/ SeMenuStay \/ SeMenuBack \/ SeMenuPrompt
    \/ EditSectionId \/ EditSectionDays \/ EditSectionStart \/ EditSectionEnd
    \/ EditSectionLocation \/ EditSectionInstructor \/ EditDeleteSection
    \/ DcMenuStay \/ DcMenuBack \/ DcMenuCourse \/ DcMenuSection
    \/ DeleteCourseConfirm \/ DeleteSectionConfirm

Spec == Init /\ [][Next]_vars

\* ------------------------------------------- add_section called on its own
\* add_section is a module-level function: besides add_course and
\* edit_course, any importer can call it, with an index of its choosing or
\* with None (written <<>> here, an index i is written <<i>>).  The call is
\* made while no workflow is running; wf stays "none" for its duration, and
\* the returns of add_section and choose_course lead back to where the call
\* was made.
DirectArgs == {<<>>} \cup {<<i>> : i \in -1..MaxCourses}

AddSectionDirect ==
    /\ pc = "main"
    /\ \E a \in DirectArgs :
        IF a = <<>>
        THEN /\ IF courses = <<>>
                THEN /\ msg' = CancelledOrNone(wf)
                     /\ UNCHANGED pc
                ELSE /\ msg' = ""
                     /\ pc' = "cc"
             /\ NoAs
             /\ UNCHANGED <<wf, course_index, section_index, title, np>>
        ELSE /\ a[1] \in 0..(Len(courses) - 1) => TotalSections(courses) < MaxSections
             /\ EnterAddSection(a[1])
             /\ UNCHANGED <<section_index, title, np>>
    /\ UNCHANGED <<user, call, courses>>

NextDirect == Next \/ AddSectionDirect

SpecDirect == Init /\ [][NextDirect]_vars

\* ------------------------------------------------- the helpers on their own
\* the program as it is before its first prompt, at one keyboard
AtStart ==
    /\ user = "clock"
    /\ courses = <<>>
    /\ pc = "main"
    /\ wf = "none"
    /\ course_index = -1
    /\ section_index = -1
    /\ title = <<>>
    /\ np = NoPeriod
    /\ msg = ""
    /\ as_entry = NoEntry
    /\ as_added = <<>>
    /\ as_iter = 0

\* every string of at most n characters of the alphabet
StringsUpTo(alphabet, n) == UNION {[1..k -> alphabet] : k \in 0..n}

\* a call is made with one argument and has not returned
Called(fn, args) == call \in {[fn |-> fn, arg |-> a, ret |-> <<>>] : a \in args}

\* the call returns the value v
Returns(v) ==
    /\ call.ret = <<>>
    /\ call' = [call EXCEPT !.ret = <<v>>]
    /\ UNCHANGED <<user, courses, pc, wf, course_index, section_index, title, np,
                   msg, as_entry, as_added, as_iter>>

\* _valid_time_format(t) for every t of digits, a colon, a space and a letter
TimeAlphabet == {"0", "2", "4", "5", "9", ":", " ", "a"}

InitValidTime == AtStart /\ Called("_valid_time_format", StringsUpTo(TimeAlphabet, MaxTimeLen))

ValidTimeFormatCall ==
    /\ call.fn = "_valid_time_format"
    /\ Returns(ValidTimeFormat(call.arg))

SpecValidTime == InitValidTime /\ [][ValidTimeFormatCall]_vars

\* _parse_days(raw) for every raw of letters of both cases, a digit, a comma
\* and a space
DaysAlphabet == {"m", "O", "1", ",", " "}

InitParseDays == AtStart /\ Called("_parse_days", StringsUpTo(DaysAlphabet, MaxDaysLen))

ParseDaysCall ==
    /\ call.fn = "_parse_days"
    /\ Returns(ParseDays(call.arg))

SpecParseDays == InitParseDays /\ [][ParseDaysCall]_vars

\* ----------------------------------------------------------------- claims
\* every period of the registry, with the course that owns it
Positions == {<<i, j>> \in (1..Len(courses)) \X (1..MaxSections + 1) :
                  j <= Len(courses[i].periods)}
PeriodAt(ij) == courses[ij[1]].periods[ij[2]]

Cancels == {<<"c">>, <<"C">>}

\* C1: in every reachable state, a period whose time_start and time_end are
\* both non-empty has time_end strictly later than time_start, in minutes
\* since midnight.
C1_EndAfterStart ==
    \A ij \in Positions :
        (PeriodAt(ij).time_start # <<>> /\ PeriodAt(ij).time_end # <<>>)
            => Minutes(PeriodAt(ij).time_end) > Minutes(PeriodAt(ij).time_start)

\* C2: in every reachable state, a period whose time_start is empty has an
\* empty time_end.
C2_NoEndWithoutStart ==
    \A ij \in Positions :
        PeriodAt(ij).time_start = <<>> => PeriodAt(ij).time_end = <<>>

\* C2, amended: what add_section collects and appends has an empty time_end
\* whenever its time_start is empty: in the locals once the start-time prompt
\* is passed, and in the period that has just been appended.
C2_AddSectionNoEndWithoutStart ==
    /\ pc \in {"as_end", "as_loc", "as_instr"}
          => (np.time_start = <<>> => np.time_end = <<>>)
    /\ pc = "as_again"
          => LET ps == courses[course_index + 1].periods IN
             ps[Len(ps)].time_start = <<>> => ps[Len(ps)].time_end = <<>>

\* C2 witness: add_section has just appended, in its second iteration, a
\* period without start time after one with an end time.
C2_Witness ==
    /\ pc = "as_again"
    /\ as_iter = 2
    /\ LET ps == courses[course_index + 1].periods IN
       /\ Len(ps) >= 2
       /\ ps[Len(ps)].time_start = <<>>
       /\ ps[Len(ps) - 1].time_end # <<>>

\* C3: in every reachable state, every course has a non-empty title and a
\* non-empty course_id.
C3_TitleAndIdNonEmpty ==
    \A i \in 1..Len(courses) :
        courses[i].title # <<>> /\ courses[i].course_id # <<>>

\* C4: in every reachable state, every period of every course has a
\* non-empty period_id.
C4_PeriodIdNonEmpty ==
    \A ij \in Positions : PeriodAt(ij).period_id # <<>>

\* C4 witness: the section-edit option "Edit section id" has just answered a
\* blank line, or add_section has just refused a blank id while the registry
\* holds a section.
C4_Witness ==
    /\ Positions # {}
    /\ \/ pc = "as_pid" /\ msg = "ID cannot be empty. Enter 'c' to cancel."
       \/ pc = "se_menu" /\ msg = "Cancelled."

\* C5: add_course never changes the registry at its title prompt; a cancel
\* token at the title or the id prompt returns to the main menu with the
\* registry as it was; any other line at the id prompt appends one course,
\* made of the accepted title and id and no periods, at the end of the
\* registry and leaves the courses before it as they were.
C5_AddCourseAtomic ==
    [][ /\ pc = "ac_title" => courses' = courses
        /\ pc = "ac_title" => \A raw \in TitleLines :
              (AddCourseTitleOn(raw) /\ Strip(raw) \in Cancels) => pc' = "main"
        /\ pc = "ac_id" => \A raw \in IdLines :
              AddCourseIdOn(raw) =>
                 IF Strip(raw) \in Cancels
                 THEN courses' = courses /\ pc' = "main"
                 ELSE /\ Len(courses') = Len(courses) + 1
                      /\ \A i \in 1..Len(courses) : courses'[i] = courses[i]
                      /\ courses'[Len(courses')] =
                            [title |-> title, course_id |-> Strip(raw), periods |-> <<>>]
      ]_vars

\* C5 witness: a cancel token has just ended add_course while the registry
\* holds a course.
C5_Witness == pc = "main" /\ msg = "Cancelled" /\ courses # <<>>

\* the registry add_section was entered with, followed in the target course
\* by the periods completed since
EntryPlusAdded ==
    [as_entry.courses EXCEPT ![as_entry.index + 1].periods = @ \o as_added]

\* C6: a cancel token at a prompt of the k-th iteration of add_section ends
\* the invocation with the registry it was entered with, followed in the
\* target course by the k-1 periods completed before (k at "add another").
C6_CancelKeepsCompleted ==
    [][ (pc \in AsPrompts) => \A raw \in Cancels :
          /\ ( \/ AddSectionPidOn(raw) \/ AddSectionDaysOn(raw)
               \/ AddSectionStartOn(raw) \/ AddSectionEndOn(raw)
               \/ AddSectionLocationOn(raw) \/ AddSectionInstructorOn(raw) )
                => /\ pc' \notin AsPrompts
                   /\ Len(as_added) = as_iter - 1
                   /\ courses' = EntryPlusAdded
          /\ AddSectionAgainOn(raw)
                => /\ pc' \notin AsPrompts
                   /\ Len(as_added) = as_iter
                   /\ courses' = EntryPlusAdded
      ]_vars

\* C6 witness: add_section was cancelled in its second iteration and the
\* period of the first is still there.
C6_Witness ==
    /\ pc \notin AsPrompts
    /\ msg = "Cancelled adding section(s)."
    /\ as_iter = 2
    /\ Len(as_added) = 1
    /\ courses = EntryPlusAdded
    /\ courses # as_entry.courses

\* C7: at the end-time prompt of add_section a line that is no valid time,
\* or a time not strictly later than the accepted start, appends nothing and
\* the prompt is asked again; a later time is taken as it was entered, and the
\* one period appended at the end of the iteration carries the accepted start
\* and end.
C7_EndTimeOfNewSection ==
    [][ /\ pc = "as_start" => \A raw \in StartLines(user) :
              (AddSectionStartOn(raw) /\ pc' = "as_end")
                 => np'.time_start = Strip(raw) /\ courses' = courses
        /\ pc = "as_end" => \A raw \in EndLines(user) :
              (AddSectionEndOn(raw) /\ Strip(raw) \notin Cancels)
                 => /\ courses' = courses
                    /\ IF \/ ~ValidTimeFormat(Strip(raw))
                          \/ Minutes(Strip(raw)) <= Minutes(np.time_start)
                       THEN pc' = "as_end" /\ np' = np
                       ELSE pc' = "as_loc" /\ np' = [np EXCEPT !.time_end = Strip(raw)]
        /\ (pc \in {"as_loc", "as_instr"} /\ pc' \in {"as_loc", "as_instr"})
              => /\ np'.time_start = np.time_start
                 /\ np'.time_end = np.time_end
                 /\ courses' = courses
        /\ (pc = "as_instr" /\ pc' = "as_again")
              => LET old == courses[course_index + 1].periods
                     new == courses'[course_index + 1].periods IN
                 /\ Len(new) = Len(old) + 1
                 /\ \A j \in 1..Len(old) : new[j] = old[j]
                 /\ new[Len(new)].time_start = np.time_start
                 /\ new[Len(new)].time_end = np.time_end
                 /\ \A i \in 1..Len(courses) : i # course_index + 1 => courses'[i] = courses[i]
      ]_vars

\* C7 witness: the end-time prompt has just refused a time that is not after
\* the start.
C7_Witness ==
    /\ pc = "as_end"
    /\ msg = "End time must be after start time."
    /\ np.time_start # <<>>

\* l equals the word w when case is ignored
SameWord(l, w) == Len(l) = Len(w) /\ \A i \in 1..Len(w) : l[i] \in {w[i], UpperCh(w[i])}

\* C8: at a confirmation prompt of edit_course or delete_course the course
\* is removed exactly when the line is "delete", and the section exactly when
\* it is "yes", case ignored; after any other line the registry is as it was
\* and the program is back at the menu of the same course or section.
C8_DeletionNeedsTheWord ==
    [][ /\ pc \in {"ec_confirm", "dc_confirm_course"} => \A raw \in DeleteLines :
              (EditDeleteCourseOn(raw) \/ DeleteCourseConfirmOn(raw))
                 => IF SameWord(Strip(raw), WordDelete)
                    THEN Len(courses') = Len(courses) - 1
                    ELSE /\ courses' = courses
                         /\ course_index' = course_index
                         /\ pc' \in {"ec_menu", "dc_menu"}
        /\ pc \in {"se_confirm", "dc_confirm_section"} => \A raw \in YesLines :
              (EditDeleteSectionOn(raw) \/ DeleteSectionConfirmOn(raw))
                 => IF SameWord(Strip(raw), WordYes)
                    THEN /\ Len(courses') = Len(courses)
                         /\ Len(courses'[course_index + 1].periods)
                               = Len(courses[course_index + 1].periods) - 1
                    ELSE /\ courses' = courses
                         /\ course_index' = course_index
                         /\ pc' \in {"se_menu", "dc_menu"}
      ]_vars

\* C8 witness: a confirmation prompt has just taken a line for a decline and
\* the course is still there.
C8_Witness ==
    /\ msg = "Deletion cancelled."
    /\ pc \in {"ec_menu", "dc_menu", "se_menu"}
    /\ course_index + 1 \in 1..Len(courses)

\* seq without its i-th element, the others in their order
Removed(seq, i) == [k \in 1..(Len(seq) - 1) |-> IF k < i THEN seq[k] ELSE seq[k + 1]]

\* C9: the index a selection returns is the accepted numeral minus one, it
\* is kept until the confirmation, and a confirmed deletion removes exactly
\* the element at that position: the other courses (the other periods of the
\* course) keep their order and their content.
C9_DeletesThePickedOne ==
    [][ /\ pc = "cc" => \A raw \in IndexLines(user) :
              (ChooseCourseOn(raw) /\ pc' \in {"ec_menu", "dc_menu"})
                 => course_index' + 1 = IntOf(Strip(raw))
        /\ pc = "cs" => \A raw \in IndexLines(user) :
              (ChooseSectionOn(raw) /\ pc' \in {"se_menu", "dc_confirm_section"})
                 => section_index' + 1 = IntOf(Strip(raw))
        /\ (pc \in {"ec_menu", "dc_menu"} /\ pc' \in {"ec_confirm", "dc_confirm_course"})
              => course_index' = course_index /\ courses' = courses
        /\ (pc \in {"ec_confirm", "dc_confirm_course"} /\ courses' # courses)
              => courses' = Removed(courses, course_index + 1)
        /\ (pc \in {"se_menu"} /\ pc' = "se_confirm")
              => /\ course_index' = course_index
                 /\ section_index' = section_index
                 /\ courses' = courses
        /\ (pc \in {"se_confirm", "dc_confirm_section"} /\ courses' # courses)
              => courses' = [courses EXCEPT ![course_index + 1].periods =
                                               Removed(@, section_index + 1)]
      ]_vars

\* C9 witness: a course has just been deleted and a course with a section,
\* of the same title and id as every course this user adds, is left.
C9_Witness ==
    /\ pc = "main"
    /\ msg \in {"Course deleted.", "Course '...' deleted."}
    /\ Len(courses) = 1
    /\ courses[1].periods # <<>>

\* C10: in delete_course, after a confirmed deletion of the course or of a
\* section, the program is back at the main menu.
C10_BothDeletionsReturn ==
    msg \in {"Course '...' deleted.", "Deleted section"} => pc = "main"

\* C10, amended: after a confirmed deletion of the whole course delete_course
\* has returned to the main menu; after a confirmed deletion of a section it
\* shows the delete submenu of the same course again.
C10_OnlyCourseDeletionReturns ==
    /\ msg = "Course '...' deleted." => pc = "main" /\ wf = "none"
    /\ msg = "Deleted section"
          => /\ pc = "dc_menu"
             /\ wf = "delete"
             /\ course_index + 1 \in 1..Len(courses)

\* C10 witness: delete_course has just removed a section.
C10_Witness == msg = "Deleted section" /\ pc = "dc_menu"

\* what a selection made of the line raw over a collection of n elements may
\* do: return cancelled on the cancel token, return the accepted numeral
\* minus one when it lies in 1..n, or ask again
SelectionOutcome(raw, n, returned, index, asked) ==
    LET choice == Strip(raw) IN
    IF IsCancel(choice) THEN returned /\ index = -1
    ELSE IF IsDecimalStr(choice) /\ IntOf(choice) \in 1..n
    THEN returned /\ index = IntOf(choice) - 1 /\ index \in 0..(n - 1)
    ELSE asked /\ courses' = courses

\* C11: choose_course and choose_section_index return cancelled (-1) or the
\* accepted 1-based numeral minus one, which lies in 0..n-1; every other
\* line only makes them ask again; on an empty registry choose_course, and
\* on a course without periods choose_section_index, returns cancelled
\* without reading a line.
C11_SelectionReturnsOrAsksAgain ==
    [][ /\ pc = "cc" => \A raw \in IndexLines(user) :
              ChooseCourseOn(raw) =>
                 SelectionOutcome(raw, Len(courses),
                                  pc' \in {"main", "ec_menu", "dc_menu"},
                                  course_index', pc' = "cc")
        /\ pc = "cs" => \A raw \in IndexLines(user) :
              ChooseSectionOn(raw) =>
                 SelectionOutcome(raw, Len(courses[course_index + 1].periods),
                                  pc' \in {"ec_menu", "dc_menu", "se_menu",
                                           "dc_confirm_section"},
                                  section_index', pc' = "cs")
        /\ (pc = "main" /\ courses = <<>>) => pc' \notin {"cc", "cs"}
        /\ (pc \in {"ec_menu", "dc_menu"} /\ courses[course_index + 1].periods = <<>>)
              => pc' # "cs"
      ]_vars

\* the edited period after the step
ThePeriodAfter == courses'[course_index + 1].periods[section_index + 1]

\* the step leaves every course and every period as it was, but for the
\* fields other than time_start and time_end of the edited period
OnlyTimesOfThePeriod ==
    /\ course_index' = course_index
    /\ section_index' = section_index
    /\ courses' = [courses EXCEPT ![course_index + 1].periods[section_index + 1] =
                      [@ EXCEPT !.time_start = ThePeriodAfter.time_start,
                                !.time_end = ThePeriodAfter.time_end]]

\* C12: in the section-edit submenu the cancel token or a blank line at
\* "Edit start time" sets time_start to empty, and at "Edit end time" sets
\* time_end to empty; the submenu is shown again.
C12_CancelOrBlankEmptiesTime ==
    [][ /\ pc = "se_start" => \A raw \in StartLines(user) :
              (EditSectionStartOn(raw) /\ (IsCancel(Strip(raw)) \/ Strip(raw) = <<>>))
                 => ThePeriodAfter.time_start = <<>> /\ pc' = "se_menu"
        /\ pc = "se_end" => \A raw \in EndLines(user) :
              (EditSectionEndOn(raw) /\ (IsCancel(Strip(raw)) \/ Strip(raw) = <<>>))
                 => ThePeriodAfter.time_end = <<>> /\ pc' = "se_menu"
      ]_vars

\* C12, amended: a blank line at "Edit start time" sets time_start to empty
\* and at "Edit end time" sets time_end to empty; the cancel token leaves the
\* time as it was; in both cases nothing else changes and the submenu is
\* shown again.
C12_BlankEmptiesCancelKeeps ==
    [][ /\ pc = "se_start" => \A raw \in StartLines(user) :
              (EditSectionStartOn(raw) /\ (IsCancel(Strip(raw)) \/ Strip(raw) = <<>>))
                 => /\ ThePeriodAfter.time_start =
                          IF Strip(raw) = <<>> THEN <<>> ELSE ThePeriod.time_start
                    /\ ThePeriodAfter.time_end = ThePeriod.time_end
                    /\ OnlyTimesOfThePeriod
                    /\ pc' = "se_menu"
        /\ pc = "se_end" => \A raw \in EndLines(user) :
              (EditSectionEndOn(raw) /\ (IsCancel(Strip(raw)) \/ Strip(raw) = <<>>))
                 => /\ ThePeriodAfter.time_end =
                          IF Strip(raw) = <<>> THEN <<>> ELSE ThePeriod.time_end
                    /\ ThePeriodAfter.time_start = ThePeriod.time_start
                    /\ OnlyTimesOfThePeriod
                    /\ pc' = "se_menu"
      ]_vars

\* C12 witness: "Edit start time" has just answered the cancel token on a
\* period that has a start time, which is still there.
C12_Witness ==
    /\ pc = "se_menu"
    /\ msg = "Start time edit cancelled or set to TBA."
    /\ ThePeriod.time_start # <<>>

\* C13: at "Edit end time" on a period with a start time, a valid time that
\* is not strictly later than the start changes nothing in the registry, and
\* a valid time strictly later than the start becomes the time_end, as it
\* was entered, with nothing else changed; the submenu is shown again.
C13_EndEditChecked ==
    [][ pc = "se_end" => \A raw \in EndLines(user) :
            ( /\ EditSectionEndOn(raw)
              /\ ThePeriod.time_start # <<>>
              /\ ValidTimeFormat(Strip(raw)) )
               => /\ pc' = "se_menu"
                  /\ IF Minutes(Strip(raw)) <= Minutes(ThePeriod.time_start)
                     THEN courses' = courses
                     ELSE /\ ThePeriodAfter.time_end = Strip(raw)
                          /\ ThePeriodAfter.time_start = ThePeriod.time_start
                          /\ OnlyTimesOfThePeriod
      ]_vars

\* C13 witness: "Edit end time" has just refused a time that is not after
\* the start, on a period that has no end time, and it still has none.
C13_Witness ==
    /\ pc = "se_menu"
    /\ msg = "End time must be after start time. Edit cancelled."
    /\ ThePeriod.time_start # <<>>
    /\ ThePeriod.time_end = <<>>

\* a line at a time prompt that is neither blank nor the cancel token and is
\* no valid time
BadTime(raw) ==
    LET line == Strip(raw) IN
    /\ line # <<>>
    /\ ~IsCancel(line)
    /\ ~ValidTimeFormat(line)

\* a line at a selection prompt over n elements that is not made of digits,
\* or is a numeral outside 1..n
BadIndex(raw, n) ==
    LET line == Strip(raw) IN
    /\ line # <<>>
    /\ ~IsCancel(line)
    /\ \/ ~IsDigitStr(line)
       \/ IsDecimalStr(line) /\ IntOf(line) \notin 1..n

\* a line at the main menu that is no integer, or an integer outside 0..6
BadMainEntry(raw) ==
    LET line == Strip(raw) IN
    /\ line # <<>>
    /\ \/ ~IsIntStr(line)
       \/ ParseInt(line) \notin 0..6

\* a line at a submenu that is none of its options
BadOption(raw, options) ==
    LET line == Strip(raw) IN
    /\ line # <<>>
    /\ Lower(line) \notin options

\* the step of the main menu that reads the line raw
MainOn(raw) ==
    \/ MainInvalidOn(raw) \/ MainExitOn(raw) \/ MainListOn(raw)
    \/ MainAddOn(raw) \/ MainEditDeleteOn(raw)

\* the step of the course menu of edit_course that reads the line raw
EcMenuOn(raw) ==
    \/ EcMenuStayOn(raw) \/ EcMenuBackOn(raw) \/ EcMenuPromptOn(raw)
    \/ EcMenuSectionsOn(raw) \/ EcMenuAddSectionOn(raw)

\* the step of the section-edit submenu that reads the line raw
SeMenuOn(raw) == SeMenuStayOn(raw) \/ SeMenuBackOn(raw) \/ SeMenuPromptOn(raw)

\* the step of the menu of delete_course that reads the line raw
DcMenuOn(raw) ==
    \/ DcMenuStayOn(raw) \/ DcMenuBackOn(raw)
    \/ DcMenuCourseOn(raw) \/ DcMenuSectionOn(raw)

\* the same prompt is asked again and the registry is as it was
SamePromptAgain == pc' = pc /\ courses' = courses

\* the lines each user can type that a menu, a selection over n elements or
\* a time prompt refuses
RefusedAtMain == [u \in Users |-> {raw \in MainLines(u) : BadMainEntry(raw)}]
RefusedAtEcMenu ==
    [u \in Users |-> {raw \in EcMenuLines(u) :
        BadOption(raw, {<<"0">>, <<"1">>, <<"2">>, <<"3">>, <<"4">>, <<"5">>})}]
RefusedAtSeMenu ==
    [u \in Users |-> {raw \in SeMenuLines(u) :
        BadOption(raw, {<<"0">>, <<"1">>, <<"2">>, <<"3">>, <<"4">>, <<"5">>,
                        <<"6">>, <<"7">>})}]
RefusedAtDcMenu ==
    [u \in Users |-> {raw \in DcMenuLines(u) :
        BadOption(raw, {<<"0">>, <<"1">>, <<"2">>})}]
RefusedIndex ==
    [u \in Users |-> [n \in 0..(MaxCourses + MaxSections) |->
        {raw \in IndexLines(u) : BadIndex(raw, n)}]]
RefusedStart == [u \in Users |-> {raw \in StartLines(u) : BadTime(raw)}]
RefusedEnd == [u \in Users |-> {raw \in EndLines(u) : BadTime(raw)}]

\* the lines each user can type at a selection that are made of digits and
\* that int() does not take
DigitsIntRefuses ==
    [u \in Users |-> {raw \in IndexLines(u) :
        IsDigitStr(Strip(raw)) /\ ~IsDecimalStr(Strip(raw))}]

\* a refused menu or index entry leaves the registry as it was and repeats
\* the prompt: a step that does anything else is the step of no refused line
BadEntriesRepeat ==
    /\ pc = "main" =>
          \/ SamePromptAgain
          \/ \A raw \in RefusedAtMain[user] : ~ MainOn(raw)
    /\ pc = "ec_menu" =>
          \/ SamePromptAgain
          \/ \A raw \in RefusedAtEcMenu[user] : ~ EcMenuOn(raw)
    /\ pc = "se_menu" =>
          \/ SamePromptAgain
          \/ \A raw \in RefusedAtSeMenu[user] : ~ SeMenuOn(raw)
    /\ pc = "dc_menu" =>
          \/ SamePromptAgain
          \/ \A raw \in RefusedAtDcMenu[user] : ~ DcMenuOn(raw)
    /\ pc = "cc" =>
          \/ SamePromptAgain
          \/ \A raw \in RefusedIndex[user][Len(courses)] : ~ ChooseCourseOn(raw)
    /\ pc = "cs" =>
          \/ SamePromptAgain
          \/ \A raw \in RefusedIndex[user][Len(courses[course_index + 1].periods)] :
                ~ ChooseSectionOn(raw)

\* a refused time at a prompt of add_section leaves the registry as it was
\* and repeats the prompt
BadTimesRepeatInAddSection ==
    /\ pc = "as_start" =>
          \/ SamePromptAgain
          \/ \A raw \in RefusedStart[user] : ~ AddSectionStartOn(raw)
    /\ pc = "as_end" =>
          \/ SamePromptAgain
          \/ \A raw \in RefusedEnd[user] : ~ AddSectionEndOn(raw)

\* C14: at every prompt that takes a time, in add_section and in the
\* section-edit submenu, a line that is neither blank nor the cancel token
\* and is no valid time leaves the registry as it was and the same prompt is
\* asked again; so does a non-numeric or out-of-range entry at a menu or at
\* a selection.
C14_BadEntryRepeatsPrompt ==
    [][ /\ BadTimesRepeatInAddSection
        /\ pc = "se_start" =>
              \/ SamePromptAgain
              \/ \A raw \in RefusedStart[user] : ~ EditSectionStartOn(raw)
        /\ pc = "se_end" =>
              \/ SamePromptAgain
              \/ \A raw \in RefusedEnd[user] : ~ EditSectionEndOn(raw)
        /\ BadEntriesRepeat
      ]_vars

\* C14, amended: a refused time repeats the prompt in add_section; in the
\* section-edit submenu it cancels the edit, the registry is as it was and
\* the submenu is shown again.  A refused entry at a menu or at a selection
\* repeats the prompt, and a selection made of digits that int() refuses
\* ends the program, the registry as it was.
C14_BadTimeCancelsTheEdit ==
    [][ /\ BadTimesRepeatInAddSection
        /\ pc = "se_start" =>
              \/ pc' = "se_menu" /\ courses' = courses
              \/ \A raw \in RefusedStart[user] : ~ EditSectionStartOn(raw)
        /\ pc = "se_end" =>
              \/ pc' = "se_menu" /\ courses' = courses
              \/ \A raw \in RefusedEnd[user] : ~ EditSectionEndOn(raw)
        /\ BadEntriesRepeat
        /\ (pc \in {"cc", "cs"}) =>
              \/ pc' = "crashed" /\ courses' = courses
              \/ \A raw \in DigitsIntRefuses[user] :
                    ~ (ChooseCourseOn(raw) \/ ChooseSectionOn(raw))
      ]_vars

\* C14 witness: a prompt of the section-edit submenu has just refused a time
\* and the submenu is shown again.
C14_Witness ==
    /\ pc = "se_menu"
    /\ msg = "Invalid time format. Edit cancelled."

\* t is one or two digits, a colon and two digits, the hour in 0..23 and the
\* minute in 0..59
IsHourAndMinute(t) ==
    LET n == Len(t)
        digit(i) == t[i] \in {"0", "1", "2", "3", "4", "5", "6", "7", "8", "9"}
        value(i) == ValueOf[t[i]] IN
    /\ n \in {4, 5}
    /\ t[n - 2] = ":"
    /\ \A i \in 1..n : i # n - 2 => digit(i)
    /\ (IF n = 4 THEN value(1) ELSE 10 * value(1) + value(2)) \in 0..23
    /\ (10 * value(n - 1) + value(n)) \in 0..59

\* C15: _valid_time_format(t) is true exactly when t itself is one or two
\* digits, a colon and two digits with the hour in 0..23 and the minute in
\* 0..59; a string with leading or trailing whitespace is refused.
C15_ValidTimeIsExactShape ==
    (call.fn = "_valid_time_format" /\ call.ret # <<>>)
        => (call.ret[1] <=> IsHourAndMinute(call.arg))

\* C15, amended: _valid_time_format(t) is true exactly when t, with its
\* leading and trailing whitespace removed, is one or two digits, a colon
\* and two digits with the hour in 0..23 and the minute in 0..59; so it is
\* false for "", "24:00" and "9:5" and true for "09:05" and for " 9:00".
C15_ValidTimeIsShapeOfStripped ==
    (call.fn = "_valid_time_format" /\ call.ret # <<>>)
        => /\ call.ret[1] <=> IsHourAndMinute(Strip(call.arg))
           /\ call.arg \in {<<>>, <<"2","4",":","0","0">>, <<"9",":","5">>}
                 => ~call.ret[1]
           /\ call.arg \in {<<"0","9",":","0","5">>, <<" ","9",":","0","0">>}
                 => call.ret[1]

\* C15 witness: _valid_time_format has returned True for a time that has a
\* space before it.
C15_Witness ==
    /\ call.fn = "_valid_time_format"
    /\ call.arg = <<" ", "9", ":", "0", "0">>
    /\ call.ret = <<TRUE>>

UpperLetters == {"A","B","C","D","E","F","G","H","I","J","K","L","M",
                 "N","O","P","Q","R","S","T","U","V","W","X","Y","Z"}
LowerLetters == {"a","b","c","d","e","f","g","h","i","j","k","l","m",
                 "n","o","p","q","r","s","t","u","v","w","x","y","z"}

\* the positions of s where a token starts: a character that is neither a
\* comma nor a space, at the start of s or after a comma or a space
TokenStarts(s) ==
    {i \in 1..Len(s) : s[i] \notin {",", " "} /\ (i = 1 \/ s[i - 1] \in {",", " "})}

\* the k-th token of s, in the order of s
TokenOf(s, k) ==
    LET first == CHOOSE i \in TokenStarts(s) :
                     Cardinality({j \in TokenStarts(s) : j < i}) = k - 1
        last  == CHOOSE e \in first..Len(s) :
                     /\ \A j \in first..e : s[j] \notin {",", " "}
                     /\ e = Len(s) \/ s[e + 1] \in {",", " "} IN
    SubSeq(s, first, last)

\* C16: _parse_days(s) returns for every s; it returns the empty list when
\* s is empty or made of commas and spaces only; every element of the
\* result is non-empty and is one uppercase letter followed by lowercase
\* letters, those of the corresponding token of s, in the order of s.
C16_DaysAreCapitalizedWords ==
    (call.fn = "_parse_days" /\ call.ret # <<>>)
        => LET days == call.ret[1] IN
           /\ Len(days) = Cardinality(TokenStarts(call.arg))
           /\ \A k \in 1..Len(days) :
                 /\ days[k] # <<>>
                 /\ days[k][1] \in UpperLetters
                 /\ \A i \in 2..Len(days[k]) : days[k][i] \in LowerLetters
                 /\ Lower(days[k]) = Lower(TokenOf(call.arg, k))

\* C16, amended: _parse_days(s) returns for every s; it returns the empty
\* list when s is empty or made of commas and spaces only; the result has
\* one element for each token of s, in the order of s; every element is
\* non-empty, holds no comma and no space, and is its token with the first
\* character in upper case when it is a letter and the other letters in
\* lower case; a digit of the token stays where it is, also in first place.
C16_DaysAreCapitalizedTokens ==
    (call.fn = "_parse_days" /\ call.ret # <<>>)
        => LET days == call.ret[1] IN
           /\ Len(days) = Cardinality(TokenStarts(call.arg))
           /\ \A k \in 1..Len(days) :
                 LET token == TokenOf(call.arg, k) IN
                 /\ days[k] # <<>>
                 /\ Len(days[k]) = Len(token)
                 /\ \A i \in 1..Len(token) :
                       /\ days[k][i] \notin {",", " "}
                       /\ days[k][i] \notin (IF i = 1 THEN LowerLetters ELSE UpperLetters)
                       /\ IF token[i] \in UpperLetters \cup LowerLetters
                          THEN Lower(<<days[k][i]>>) = Lower(<<token[i]>>)
                          ELSE days[k][i] = token[i]

\* C16 witness: _parse_days has returned, for two tokens, a first element
\* that starts with a digit and a second one set in capitals.
C16_Witness ==
    /\ call.fn = "_parse_days"
    /\ call.arg = <<"1", "m", ",", "m", "O">>
    /\ call.ret = << << <<"1", "m">>, <<"M", "o">> >> >>

\* the prompts at which a course has been resolved: courses[course_index]
\* was read to reach them, and del courses[course_index] may follow
CoursePrompts ==
    AsPrompts \cup {"ec_menu", "ec_title", "ec_id", "ec_confirm", "cs",
                    "se_menu", "se_pid", "se_days", "se_start", "se_end", "se_loc",
                    "se_instr", "se_confirm",
                    "dc_menu", "dc_confirm_course", "dc_confirm_section"}

\* the prompts at which a section has been resolved too:
\* course.periods[section_index] was read to reach them, and
\* del course.periods[section_index] may follow
SectionPrompts ==
    {"se_menu", "se_pid", "se_days", "se_start", "se_end", "se_loc", "se_instr",
     "se_confirm", "dc_confirm_section"}

\* C17: wherever the program has resolved a course, course_index is within
\* the registry, and wherever it has resolved a section, section_index is
\* within the periods of that course; after a confirmed deletion of a course
\* the program is at the main menu and holds no course index, and after a
\* confirmed deletion of a section it holds no section index.
C17_IndicesInBounds ==
    /\ pc \in CoursePrompts => course_index \in 0..(Len(courses) - 1)
    /\ pc \in SectionPrompts
          => /\ course_index \in 0..(Len(courses) - 1)
             /\ section_index \in 0..(Len(courses[course_index + 1].periods) - 1)
    /\ pc \notin SectionPrompts \cup {"crashed"} => section_index = -1
    /\ pc \notin CoursePrompts \cup {"crashed"} => course_index = -1
    /\ msg \in {"Course deleted.", "Course '...' deleted."}
          => pc = "main" /\ course_index = -1
    /\ msg \in {"Section deleted.", "Deleted section"}
          => pc \in {"ec_menu", "dc_menu"} /\ section_index = -1

\* C17 witness: delete_course has just removed the last section of the last
\* course of the registry and is at its menu, the course still resolved.
C17_Witness ==
    /\ pc = "dc_menu"
    /\ msg = "Deleted section"
    /\ course_index = Len(courses) - 1
    /\ courses[course_index + 1].periods = <<>>
    /\ section_index = -1

\* C18.  The bounds guard of add_section ("Invalid course index.") trips in
\* no step of the menus: the only step in which it trips is a call of
\* add_section made from outside them, and that call returns at once with
\* the registry, the workflow and the indices as they were.  Every call the
\* menus make passes an index in range: add_course the index of the course
\* it has just appended, edit_course the index of the course being edited,
\* and an index that choose_course returned is in range too.
C18_GuardOnlyTripsOnDirectCall ==
    [][ /\ (msg' = "Invalid course index.") =>
              /\ AddSectionDirect
              /\ ~ Next
              /\ courses' = courses
              /\ pc' = "main" /\ wf' = "none" /\ course_index' = -1
        /\ (pc = "ac_sections" /\ pc' # pc) =>
              \/ pc' = "main"
              \/ pc' = "as_pid" /\ course_index' = Len(courses) - 1
                                /\ course_index' \in 0..(Len(courses) - 1)
        /\ (pc = "ec_menu" /\ pc' = "as_pid") =>
              /\ course_index' = course_index
              /\ course_index' \in 0..(Len(courses) - 1)
        /\ (pc = "cc" /\ pc' = "as_pid") =>
              course_index' \in 0..(Len(courses) - 1)
      ]_vars

\* the guard has tripped on a registry that holds a course
C18_Witness ==
    /\ msg = "Invalid course index."
    /\ pc = "main"
    /\ courses # <<>>

\* C19.  In the section-edit submenu a blank line at "Edit start time"
\* changes the time_start of the edited period to empty and nothing else:
\* its time_end, a non-empty one included, every other field and every other
\* period stay as they were.  At "Edit end time" on a period whose
\* time_start is empty, every line that is a valid time becomes the
\* time_end, as it was entered: no chronological check is made.
C19_BlankStartKeepsEndThenAnyEnd ==
    [][ /\ pc = "se_start" => \A raw \in StartLines(user) :
              (EditSectionStartOn(raw) /\ Strip(raw) = <<>>)
                 => /\ courses' = [courses EXCEPT
                          ![course_index + 1].periods[section_index + 1].time_start = <<>>]
                    /\ ThePeriodAfter.time_end = ThePeriod.time_end
                    /\ pc' = "se_menu"
                    /\ course_index' = course_index
                    /\ section_index' = section_index
        /\ pc = "se_end" => \A raw \in EndLines(user) :
              ( /\ EditSectionEndOn(raw)
                /\ ThePeriod.time_start = <<>>
                /\ ValidTimeFormat(Strip(raw)) )
                 => /\ courses' = [courses EXCEPT
                          ![course_index + 1].periods[section_index + 1].time_end = Strip(raw)]
                    /\ msg' = "End time updated."
                    /\ pc' = "se_menu"
                    /\ course_index' = course_index
                    /\ section_index' = section_index
      ]_vars

\* C19 witness: a valid end time has just been stored on a period that has
\* no start time
C19_Witness ==
    /\ pc = "se_menu"
    /\ msg = "End time updated."
    /\ ThePeriod.time_start = <<>>
    /\ ThePeriod.time_end # <<>>

\* a time as the registry may hold it: empty (TBA) or accepted by
\* _valid_time_format
EmptyOrValidTime(t) == t = <<>> \/ ValidTimeFormat(t)

\* the start and end times the program holds: those of the periods of the
\* registry and those add_section has collected for the period it is building
StoredTimes ==
    {PeriodAt(ij).time_start : ij \in Positions}
        \cup {PeriodAt(ij).time_end : ij \in Positions}
        \cup {np.time_start, np.time_end}

\* the except clause of "Edit end time" is entered on the line raw: the line
\* passed the format check, the period has a start time, and splitting one
\* of the two at the colon and converting the parts with int() raises
FallbackTaken(raw) ==
    /\ ~ IsCancel(Strip(raw))
    /\ Strip(raw) # <<>>
    /\ ValidTimeFormat(Strip(raw))
    /\ ThePeriod.time_start # <<>>
    /\ ~ (MinutesParse(ThePeriod.time_start) /\ MinutesParse(Strip(raw)))

\* C20.  In every reachable state the time_start and the time_end of every
\* period of the registry, and of the period add_section is collecting, is
\* empty or accepted by _valid_time_format; so at "Edit end time" the minute
\* arithmetic on the period's start time succeeds, and no line the user can
\* type takes the except clause that skips the chronological check.
C20_StoredTimesAreValid ==
    /\ \A t \in StoredTimes : EmptyOrValidTime(t)
    /\ \A t \in StoredTimes \ {<<>>} : MinutesParse(t)
    /\ pc = "se_end" => \A raw \in EndLines(user) : ~ FallbackTaken(raw)

\* C20 witness: "Edit end time" is asking, for a period that has a start
\* time and an end time, and a valid time is among the lines to come: the
\* chronological check is about to run
C20_Witness ==
    /\ pc = "se_end"
    /\ ThePeriod.time_start # <<>>
    /\ ThePeriod.time_end # <<>>
    /\ \E raw \in EndLines(user) : ValidTimeFormat(Strip(raw))

====
